---- MODULE Spec2Model ----
(***************************************************************************)
(* A model of joblib's shelf (src/joblib/shelf.py): the Shelf object that  *)
(* owns one storage folder, the ShelfFuture handles it returns and the     *)
(* per-process memoization dictionary _futures; of the module's functions  *)
(* shelve and clear_shelf with the default Shelf of each process, of the   *)
(* close() registered with atexit; and of _get_temp_dir                    *)
(* (src/joblib/_tmp_dir.py).                                               *)
(*                                                                         *)
(* Four specifications share the variables: Spec (Shelf objects, futures   *)
(* and the processes that resolve them), SpecProc (processes with their    *)
(* Shelf objects, their default Shelf and their exit), SpecScope (Shelf    *)
(* objects as context managers) and SpecTmp (the calls of _get_temp_dir).  *)
(*                                                                         *)
(* Every method of shelf.py is an operator from a state record to the      *)
(* state record after the call, whose field ret is what the call gave      *)
(* back; the actions apply these operators to the variables.  The          *)
(* store backend (joblib.memory), the resource tracker (loky) and uuid4    *)
(* are not part of src/: they are modelled from their contract.            *)
(***************************************************************************)
EXTENDS Naturals, FiniteSets, Sequences, TLC

\* ---------------------------------------------------------------- bounds
\* Number of identifiers uuid4 can hand out in one run.
MaxShelves == 2
\* Number of Shelf objects constructed in one run.
MaxStores == 2

\* ------------------------------------------------------------ the values
None == "None"
\* No entry: a dict without the key, a folder without the item.
Absent == "Absent"
KeyError == "KeyError"
RuntimeError == "RuntimeError"
OSError == "OSError"
AttributeError == "AttributeError"
FOLDER == "folder"

Procs == {"p1", "p2"}
Locs == {"a", "b"}
FirstLoc == "a"
Vals == {None, "42"}
Ids == 1..MaxShelves
Stores == 1..MaxStores
\* _shelf = None: the process has no default Shelf (Shelf objects are 1, 2, ...).
NoShelf == 0

\* (self.id,): the key of an item inside its folder.
ItemKey(id) == <<id>>
ItemKeys == {ItemKey(i) : i \in Ids}
FutureKeys == Locs \X Ids
NoFuture == <<>>

VARIABLES
  pc,             \* per Shelf object: "unborn", "init" (inside __init__), "ready"
  store_backend,  \* per Shelf object: the location of its backend, or None
  dirExists,      \* filesystem: which locations exist as folders
  items,          \* filesystem: per location, the item stored under each key
  registry,       \* resource tracker: the registered (name, rtype) pairs
  futures,        \* per process: the module dictionary _futures
  used,           \* the identifiers uuid4 has returned so far
  shelved,        \* history: per identifier, the (location, data) shelve returned a future for
  shelf,          \* per process: the module global _shelf, a Shelf object or NoShelf
  atexit,         \* per process: the Shelf objects whose close is registered with atexit
  exited,         \* the processes that have exited
  scope,          \* per Shelf object: "" , "in" (inside its with block) or "left"
  tmp,            \* what _get_temp_dir is called with and the filesystem it probes
  resolved        \* what _get_temp_dir returned: (pool_folder, use_shared_mem), or <<>>

vars == <<pc, store_backend, dirExists, items, registry, futures, used, shelved,
          shelf, atexit, exited, scope, tmp, resolved>>

State ==
  [pc |-> pc, store_backend |-> store_backend, dirExists |-> dirExists,
   items |-> items, registry |-> registry, futures |-> futures, used |-> used,
   shelved |-> shelved,
   ret |-> [op |-> "", out |-> None, calls |-> <<>>, future |-> NoFuture]]

Apply(st) ==
  /\ pc' = st.pc
  /\ store_backend' = st.store_backend
  /\ dirExists' = st.dirExists
  /\ items' = st.items
  /\ registry' = st.registry
  /\ futures' = st.futures
  /\ used' = st.used
  /\ shelved' = st.shelved
  /\ UNCHANGED <<shelf, atexit, exited, scope, tmp, resolved>>

\* The state with the processes in it: what the module's functions, the
\* constructor and the exit of a process work on.
ProcState ==
  [pc |-> pc, store_backend |-> store_backend, dirExists |-> dirExists,
   items |-> items, registry |-> registry, futures |-> futures, used |-> used,
   shelved |-> shelved, shelf |-> shelf, atexit |-> atexit, exited |-> exited,
   scope |-> scope,
   ret |-> [op |-> "", out |-> None, calls |-> <<>>, future |-> NoFuture]]

ApplyProc(st) ==
  /\ pc' = st.pc
  /\ store_backend' = st.store_backend
  /\ dirExists' = st.dirExists
  /\ items' = st.items
  /\ registry' = st.registry
  /\ futures' = st.futures
  /\ used' = st.used
  /\ shelved' = st.shelved
  /\ shelf' = st.shelf
  /\ atexit' = st.atexit
  /\ exited' = st.exited
  /\ scope' = st.scope
  /\ UNCHANGED <<tmp, resolved>>

\* The state _get_temp_dir works on.
TmpState ==
  [tmp |-> tmp, resolved |-> resolved,
   ret |-> [op |-> "", out |-> None, calls |-> <<>>, future |-> NoFuture]]

ApplyTmp(st) ==
  /\ tmp' = st.tmp
  /\ resolved' = st.resolved
  /\ UNCHANGED <<pc, store_backend, dirExists, items, registry, futures, used,
                 shelved, shelf, atexit, exited, scope>>

\* What a call gives back: out is the value returned or the exception raised,
\* calls the calls it made of the backend, the tracker, rmtree and uuid4, future
\* the (location, id) of the ShelfFuture returned.
Ret(op, out, calls) == [op |-> op, out |-> out, calls |-> calls, future |-> NoFuture]

EmptyFolder == [k \in ItemKeys |-> Absent]

\* ---------------------------------------------- the store backend (spec 6)
\* _store_backend_factory("local", location) as Shelf.__init__ calls it:
\* binds a backend to location, creating the folder when it is missing.
store_backend_factory(st, loc) ==
  [st EXCEPT !.dirExists[loc] = TRUE]

\* _store_backend_factory("local", location) as a ShelfFuture calls it: a view
\* of the folder; once the folder is gone the view fails (spec 4.3).
BackendView(st, loc) == loc \in Locs /\ st.dirExists[loc]

\* store_backend.dump_item(key, data); ok = FALSE is an I/O failure, which
\* leaves the folder as it was.
dump_item(st, loc, key, data, ok) ==
  IF ok /\ BackendView(st, loc)
  THEN [st EXCEPT !.items[loc][key] = data]
  ELSE st

DumpFails(st, loc, ok) == ~(ok /\ BackendView(st, loc))

\* store_backend.load_item(key): the item, or Absent ("Non-existing item").
load_item(st, loc, key) ==
  IF BackendView(st, loc) /\ key \in ItemKeys THEN st.items[loc][key] ELSE Absent

\* store_backend.clear_item(key): no-op when the key is absent.
clear_item(st, loc, key) ==
  IF BackendView(st, loc) /\ key \in ItemKeys
  THEN [st EXCEPT !.items[loc][key] = Absent]
  ELSE st

\* store_backend.clear(): wipes all items, keeps the folder.
backend_clear(st, loc) ==
  IF BackendView(st, loc) THEN [st EXCEPT !.items[loc] = EmptyFolder] ELSE st

\* ------------------------------------------- the resource tracker (spec 6)
register(st, name, rtype) == [st EXCEPT !.registry = @ \cup {<<name, rtype>>}]
unregister(st, name, rtype) == [st EXCEPT !.registry = @ \ {<<name, rtype>>}]

\* shutil.rmtree(location); ok = FALSE is a failure that removes nothing.
rmtree(st, loc, ok) ==
  IF ok /\ loc \in Locs /\ st.dirExists[loc]
  THEN [st EXCEPT !.dirExists[loc] = FALSE, !.items[loc] = EmptyFolder]
  ELSE st

RmtreeFails(st, loc, ok) == ~(ok /\ loc \in Locs /\ st.dirExists[loc])

\* ------------------------------------------------------------ ShelfFuture
\* A key of _futures that forgets the identifier.
FutureIdByLocation(loc, id) == <<loc, 1>>

\* id = (self.location, self.id): the key of a future in _futures.
FutureId(loc, id) == <<loc, id>>

\* _futures.get(id, None)
FuturesGet(st, p, k) ==
  IF k \in FutureKeys /\ st.futures[p][k] # Absent THEN st.futures[p][k] ELSE None

\* if value is None: the dictionary is taken to have no value for the key.
IsCacheMiss(value) == value = None

\* A result() that memoizes into a dictionary shared by all processes.
ShelfFuture_result_shared(st, p, loc, id) ==
  LET k == FutureId(loc, id)
      value == FuturesGet(st, p, k)
  IN IF IsCacheMiss(value)
     THEN LET loaded == load_item(st, loc, ItemKey(id))
          IN IF loaded = Absent
             THEN [st EXCEPT !.ret = Ret("result", KeyError, <<"load_item">>)]
             ELSE [st EXCEPT !.futures = [q \in Procs |-> [@[q] EXCEPT ![k] = loaded]],
                             !.ret = Ret("result", loaded, <<"load_item">>)]
     ELSE [st EXCEPT !.ret = Ret("result", value, <<>>)]

\* ShelfFuture(loc, id).result() in process p.
ShelfFuture_result(st, p, loc, id) ==
  LET k == FutureId(loc, id)
      value == FuturesGet(st, p, k)
  IN IF IsCacheMiss(value)
     THEN LET loaded == load_item(st, loc, ItemKey(id))
          IN IF loaded = Absent
             THEN [st EXCEPT !.ret = Ret("result", KeyError, <<"load_item">>)]
             ELSE [st EXCEPT !.futures[p][k] = loaded,
                             !.ret = Ret("result", loaded, <<"load_item">>)]
     ELSE [st EXCEPT !.ret = Ret("result", value, <<>>)]

\* A clear that wipes the whole folder of the future.
ShelfFuture_clear_all(st, loc, id) ==
  IF BackendView(st, loc)
  THEN [backend_clear(st, loc) EXCEPT !.ret = Ret("future_clear", None, <<"clear">>)]
  ELSE [st EXCEPT !.ret = Ret("future_clear", KeyError, <<>>)]

\* ShelfFuture(loc, id).clear()
ShelfFuture_clear(st, loc, id) ==
  IF BackendView(st, loc)
  THEN [clear_item(st, loc, ItemKey(id)) EXCEPT !.ret = Ret("future_clear", None, <<"clear_item">>)]
  ELSE [st EXCEPT !.ret = Ret("future_clear", KeyError, <<>>)]

\* ------------------------------------------------------------------ Shelf
\* self.store_backend is None
IsClosed(st, s) == st.store_backend[s] = None

\* Shelf.__init__, the call of the backend factory; the Shelf object exists
\* from here on, the registration is still to come.
Shelf_init_backend(st, s, loc) ==
  [store_backend_factory(st, loc) EXCEPT
     !.store_backend[s] = loc,
     !.pc[s] = "init",
     !.ret = Ret("init_backend", None, <<"factory">>)]

\* Shelf.__init__, the registration that ends it.
Shelf_init_register(st, s) ==
  IF ~IsClosed(st, s)
  THEN [register(st, st.store_backend[s], FOLDER) EXCEPT
          !.pc[s] = "ready",
          !.ret = Ret("init_register", None, <<"register">>)]
  ELSE [st EXCEPT !.pc[s] = "ready", !.ret = Ret("init_register", None, <<>>)]

\* A shelve without the test of store_backend.
Shelf_shelve_unguarded(st, s, data, id, ok) ==
  LET loc == st.store_backend[s]
      st1 == [st EXCEPT !.used = @ \cup {id}]
  IN IF loc = None
     THEN [st1 EXCEPT !.ret = Ret("shelve", AttributeError, <<"uuid4">>)]
     ELSE IF DumpFails(st1, loc, ok)
     THEN [st1 EXCEPT !.ret = Ret("shelve", OSError, <<"uuid4", "dump_item">>)]
     ELSE [dump_item(st1, loc, ItemKey(id), data, ok) EXCEPT
             !.ret = [op |-> "shelve", out |-> "ShelfFuture",
                      calls |-> <<"uuid4", "dump_item">>,
                      future |-> <<loc, id>>]]

\* A shelve that swallows the failure of dump_item and returns the future.
Shelf_shelve_swallows(st, s, data, id, ok) ==
  IF IsClosed(st, s)
  THEN [st EXCEPT !.ret = Ret("shelve", RuntimeError, <<>>)]
  ELSE LET loc == st.store_backend[s]
           st1 == [st EXCEPT !.used = @ \cup {id}]
       IN [dump_item(st1, loc, ItemKey(id), data, ok) EXCEPT
             !.ret = [op |-> "shelve", out |-> "ShelfFuture",
                      calls |-> <<"uuid4", "dump_item">>,
                      future |-> <<loc, id>>]]

\* Shelf.shelve(data); id is what uuid4 returns, ok whether the write works.
Shelf_shelve(st, s, data, id, ok) ==
  IF IsClosed(st, s)
  THEN [st EXCEPT !.ret = Ret("shelve", RuntimeError, <<>>)]
  ELSE LET loc == st.store_backend[s]
           st1 == [st EXCEPT !.used = @ \cup {id}]
       IN IF loc = None
          THEN [st1 EXCEPT !.ret = Ret("shelve", AttributeError, <<"uuid4">>)]
          ELSE IF DumpFails(st1, loc, ok)
          THEN [st1 EXCEPT !.ret = Ret("shelve", OSError, <<"uuid4", "dump_item">>)]
          ELSE [dump_item(st1, loc, ItemKey(id), data, ok) EXCEPT
                  !.ret = [op |-> "shelve", out |-> "ShelfFuture",
                           calls |-> <<"uuid4", "dump_item">>,
                           future |-> <<loc, id>>]]

\* A clear that removes the folder instead of wiping its items.
Shelf_clear_rmtree(st, s) ==
  IF ~IsClosed(st, s)
  THEN [rmtree(st, st.store_backend[s], TRUE) EXCEPT !.ret = Ret("clear", None, <<"rmtree">>)]
  ELSE [st EXCEPT !.ret = Ret("clear", None, <<>>)]

\* Shelf.clear()
Shelf_clear(st, s) ==
  IF ~IsClosed(st, s)
  THEN [backend_clear(st, st.store_backend[s]) EXCEPT !.ret = Ret("clear", None, <<"clear">>)]
  ELSE [st EXCEPT !.ret = Ret("clear", None, <<>>)]

\* A close that does not reset store_backend.
Shelf_close_keeps_backend(st, s, ok) ==
  IF ~IsClosed(st, s)
  THEN LET loc == st.store_backend[s]
       IN IF RmtreeFails(st, loc, ok)
          THEN [st EXCEPT !.ret = Ret("close", OSError, <<"rmtree">>)]
          ELSE [unregister(rmtree(st, loc, ok), loc, FOLDER) EXCEPT
                  !.ret = Ret("close", None, <<"rmtree", "unregister">>)]
  ELSE [st EXCEPT !.ret = Ret("close", None, <<>>)]

\* A close that unregisters the location before it removes the folder.
Shelf_close_unregister_first(st, s, ok) ==
  IF ~IsClosed(st, s)
  THEN LET loc == st.store_backend[s]
           st1 == unregister(st, loc, FOLDER)
       IN IF RmtreeFails(st1, loc, ok)
          THEN [st1 EXCEPT !.ret = Ret("close", OSError, <<"unregister", "rmtree">>)]
          ELSE [rmtree(st1, loc, ok) EXCEPT
                  !.store_backend[s] = None,
                  !.ret = Ret("close", None, <<"unregister", "rmtree">>)]
  ELSE [st EXCEPT !.ret = Ret("close", None, <<>>)]

\* Shelf.close(); ok is whether rmtree works.
Shelf_close(st, s, ok) ==
  IF ~IsClosed(st, s)
  THEN LET loc == st.store_backend[s]
       IN IF RmtreeFails(st, loc, ok)
          THEN [st EXCEPT !.ret = Ret("close", OSError, <<"rmtree">>)]
          ELSE [unregister(rmtree(st, loc, ok), loc, FOLDER) EXCEPT
                  !.store_backend[s] = None,
                  !.ret = Ret("close", None, <<"rmtree", "unregister">>)]
  ELSE [st EXCEPT !.ret = Ret("close", None, <<>>)]

\* atexit.register(self.close) in process p
atexit_register(st, p, s) == [st EXCEPT !.atexit[p] = Append(@, s)]

\* Shelf(loc) in process p: the whole of __init__.
Shelf_init(st, p, s, loc) ==
  LET st1 == Shelf_init_register(Shelf_init_backend(st, s, loc), s)
  IN IF ~IsClosed(st1, s)
     THEN [atexit_register(st1, p, s) EXCEPT
             !.ret = Ret("__init__", None, <<"factory", "register", "atexit.register">>)]
     ELSE st1

\* The Shelf object s as a value returned.
Self(s) == ToString(s)

\* Shelf.__enter__()
Shelf_enter(st, s) == [st EXCEPT !.ret = Ret("__enter__", Self(s), <<>>)]

\* An __exit__ that does not close.
Shelf_exit_nothing(st, s, exc, ok) == [st EXCEPT !.ret = Ret("__exit__", None, <<>>)]

\* Shelf.__exit__(exc_type, exc_value, traceback); exc is whether the body
\* raised, ok whether rmtree works.  It returns None: an exception of the
\* body is not swallowed.
Shelf_exit(st, s, exc, ok) == [Shelf_close(st, s, ok) EXCEPT !.ret.op = "__exit__"]

\* An exit that runs the last registered close() only.
run_exitfuncs_last_only(st, hooks, oks) ==
  IF hooks = <<>>
  THEN st
  ELSE LET st1 == Shelf_close(st, hooks[Len(hooks)], oks[hooks[Len(hooks)]])
       IN [st1 EXCEPT !.ret = Ret("exit", None, st.ret.calls \o st1.ret.calls)]

\* What atexit does at the exit of a process with the close() it holds, the
\* last registered first; an exception of one close() is reported and the
\* others still run.
RECURSIVE run_exitfuncs(_, _, _)
run_exitfuncs(st, hooks, oks) ==
  IF hooks = <<>>
  THEN st
  ELSE LET n == Len(hooks)
           st1 == Shelf_close(st, hooks[n], oks[hooks[n]])
       IN run_exitfuncs([st1 EXCEPT !.ret = Ret("exit", None, st.ret.calls \o st1.ret.calls)],
                        SubSeq(hooks, 1, n - 1), oks)

\* The normal exit of process p.
exit(st, p, oks) ==
  [run_exitfuncs([st EXCEPT !.ret = Ret("exit", None, <<>>)], st.atexit[p], oks)
     EXCEPT !.exited = @ \cup {p}]

\* ------------------------------------------------- the module's functions
\* _get_temp_dir(f"joblib_shelf_{os.getpid()}")[0]: a folder of the process.
DefaultLoc(p) == IF p = "p1" THEN "a" ELSE "b"

\* A shelve(data) that makes a new default Shelf when the old one is closed.
shelve_reopens(st, p, data, id, ok, s) ==
  IF st.shelf[p] = NoShelf \/ (s \in Stores /\ IsClosed(st, st.shelf[p]))
  THEN LET st1 == [Shelf_init(st, p, s, DefaultLoc(p)) EXCEPT !.shelf[p] = s]
       IN Shelf_shelve(st1, s, data, id, ok)
  ELSE Shelf_shelve(st, st.shelf[p], data, id, ok)

\* A shelve(data) that makes a new default Shelf at every call.
shelve_fresh(st, p, data, id, ok, s) ==
  IF st.shelf[p] = NoShelf \/ s \in Stores
  THEN LET st1 == [Shelf_init(st, p, s, DefaultLoc(p)) EXCEPT !.shelf[p] = s]
       IN Shelf_shelve(st1, s, data, id, ok)
  ELSE Shelf_shelve(st, st.shelf[p], data, id, ok)

\* shelve(data) in process p; s is the Shelf object it constructs if it
\* constructs one.
shelve(st, p, data, id, ok, s) ==
  IF st.shelf[p] = NoShelf
  THEN LET st1 == [Shelf_init(st, p, s, DefaultLoc(p)) EXCEPT !.shelf[p] = s]
       IN Shelf_shelve(st1, s, data, id, ok)
  ELSE Shelf_shelve(st, st.shelf[p], data, id, ok)

\* clear_shelf() in process p
clear_shelf(st, p) ==
  IF st.shelf[p] # NoShelf
  THEN [Shelf_clear(st, st.shelf[p]) EXCEPT !.ret.op = "clear_shelf"]
  ELSE [st EXCEPT !.ret = Ret("clear_shelf", None, <<>>)]

\* ------------------------------------------- _get_temp_dir (_tmp_dir.py)
SYSTEM_SHARED_MEM_FS == "/dev/shm"
SYSTEM_SHARED_MEM_FS_MIN_SIZE == 2000000000
\* tempfile.gettempdir()
gettempdir == "/tmp"

\* The paths a caller or JOBLIB_TEMP_FOLDER can name: absolute, relative,
\* under the home directory, empty.
Tilde == "~/t"
RelativePaths == {"rel"}
PathNames == {"/x", "", Tilde} \cup RelativePaths
Home == "/home/u"
Cwd == "/cwd"
PoolFolderNames == {"joblib_shelf_1"}

\* os.path.join(a, b), b relative
join(a, b) == a \o "/" \o b
\* os.path.expanduser(path)
expanduser(path) == IF path = Tilde THEN Home \o "/t" ELSE path
\* os.path.abspath(path)
abspath(path) ==
  IF path = "" THEN Cwd
  ELSE IF path \in RelativePaths THEN join(Cwd, path)
  ELSE path

\* (f_bsize, f_bavail) of os.statvfs: below, at and above the minimal size.
StatVfs == {<<4096, 0>>, <<4096, 488281>>, <<4096, 488282>>,
            <<1000, 2000000>>, <<1000, 2000001>>}

\* The directories under SYSTEM_SHARED_MEM_FS before the call.
ShmDirs ==
  {{}, {SYSTEM_SHARED_MEM_FS}}
    \cup {{SYSTEM_SHARED_MEM_FS, join(SYSTEM_SHARED_MEM_FS, n)} : n \in PoolFolderNames}

\* The calls of _get_temp_dir: its arguments, JOBLIB_TEMP_FOLDER and what the
\* operating system answers to the probe of SYSTEM_SHARED_MEM_FS.
Calls ==
  [pool_folder_name : PoolFolderNames,
   temp_folder : {None} \cup PathNames,
   environ : {None, "/e", ""},
   dirs : ShmDirs,
   has_statvfs : BOOLEAN,
   statvfs_ok : BOOLEAN,
   shm_stats : StatVfs,
   makedirs_ok : BOOLEAN,
   made : {{}}]

\* No call of _get_temp_dir.
NoCall ==
  [pool_folder_name |-> "joblib_shelf_1", temp_folder |-> None, environ |-> None,
   dirs |-> {}, has_statvfs |-> FALSE, statvfs_ok |-> FALSE,
   shm_stats |-> <<4096, 0>>, makedirs_ok |-> FALSE, made |-> {}]

\* os.path.exists(path), for the paths under SYSTEM_SHARED_MEM_FS
exists(st, path) == path \in st.tmp.dirs

\* A makedirs that creates nothing.
makedirs_nothing(st, path) == st

\* os.makedirs(path), when it works; made is the history of what it created.
makedirs(st, path) ==
  [st EXCEPT !.tmp.dirs = @ \cup {path}, !.tmp.made = @ \cup {path}]

\* A test that accepts the minimal size itself.
IsLargeEnoughOrEqual(available_nbytes) ==
  available_nbytes >= SYSTEM_SHARED_MEM_FS_MIN_SIZE

\* available_nbytes > SYSTEM_SHARED_MEM_FS_MIN_SIZE
IsLargeEnough(available_nbytes) ==
  available_nbytes > SYSTEM_SHARED_MEM_FS_MIN_SIZE

\* The last three lines of _get_temp_dir.
get_temp_dir_return(st, pool_folder_name, temp_folder, use_shared_mem, calls) ==
  LET pool_folder == join(abspath(expanduser(temp_folder)), pool_folder_name)
  IN [st EXCEPT !.resolved = <<pool_folder, use_shared_mem>>,
                !.ret = Ret("_get_temp_dir", "tuple", calls)]

\* _get_temp_dir(pool_folder_name, temp_folder); an OSError of statvfs or of
\* makedirs is caught and leads to gettempdir().
get_temp_dir(st, pool_folder_name, temp_folder) ==
  LET t == st.tmp
      temp_folder1 == IF temp_folder = None THEN t.environ ELSE temp_folder
      available_nbytes == t.shm_stats[1] * t.shm_stats[2]
      pool_folder == join(SYSTEM_SHARED_MEM_FS, pool_folder_name)
  IN IF temp_folder1 # None
     THEN get_temp_dir_return(st, pool_folder_name, temp_folder1, FALSE, <<>>)
     ELSE IF ~(exists(st, SYSTEM_SHARED_MEM_FS) /\ t.has_statvfs)
     THEN get_temp_dir_return(st, pool_folder_name, gettempdir, FALSE, <<>>)
     ELSE IF ~t.statvfs_ok
     THEN get_temp_dir_return(st, pool_folder_name, gettempdir, FALSE, <<"statvfs">>)
     ELSE IF ~IsLargeEnough(available_nbytes)
     THEN get_temp_dir_return(st, pool_folder_name, gettempdir, FALSE, <<"statvfs">>)
     ELSE IF exists(st, pool_folder)
     THEN get_temp_dir_return(st, pool_folder_name, SYSTEM_SHARED_MEM_FS, TRUE,
                              <<"statvfs">>)
     ELSE IF ~t.makedirs_ok
     THEN get_temp_dir_return(st, pool_folder_name, gettempdir, FALSE,
                              <<"statvfs", "makedirs">>)
     ELSE get_temp_dir_return(makedirs(st, pool_folder), pool_folder_name,
                              SYSTEM_SHARED_MEM_FS, TRUE, <<"statvfs", "makedirs">>)

\* ---------------------------------------------------------------- actions
\* The module right after import, no Shelf constructed yet.
InitShelf ==
  /\ pc = [s \in Stores |-> "unborn"]
  /\ store_backend = [s \in Stores |-> None]
  /\ dirExists = [l \in Locs |-> FALSE]
  /\ items = [l \in Locs |-> EmptyFolder]
  /\ registry = {}
  /\ futures = [p \in Procs |-> [k \in FutureKeys |-> Absent]]
  /\ used = {}
  /\ shelved = [i \in Ids |-> Absent]
  /\ shelf = [p \in Procs |-> NoShelf]
  /\ atexit = [p \in Procs |-> <<>>]
  /\ exited = {}
  /\ scope = [s \in Stores |-> ""]
  /\ resolved = <<>>

Init ==
  /\ InitShelf
  /\ tmp = NoCall

\* A location is the folder of one Shelf object at a time (spec 3, 5).
LocationFree(loc) == \A t \in Stores : store_backend[t] # loc

\* Shelf(loc), up to the return of the backend factory; Shelf objects are
\* named in the order they are constructed, and the first one's location
\* is named FirstLoc.
Construct(s, loc) ==
  /\ pc[s] = "unborn"
  /\ \A t \in Stores : t < s => pc[t] # "unborn"
  /\ (\A t \in Stores : pc[t] = "unborn") => loc = FirstLoc
  /\ LocationFree(loc)
  /\ Apply(Shelf_init_backend(State, s, loc))

\* Shelf(loc), the rest of __init__.
Register(s) ==
  /\ pc[s] = "init"
  /\ Apply(Shelf_init_register(State, s))

\* uuid4 returns an identifier it has not returned before; identifiers are
\* named in the order uuid4 returns them.
Uuid4 == {i \in Ids \ used : \A j \in Ids : j < i => j \in used}

\* The history of the futures shelve has returned, with their data.
Record(st, data) ==
  IF st.ret.out = "ShelfFuture"
  THEN [st EXCEPT !.shelved[st.ret.future[2]] = <<st.ret.future[1], data>>]
  ELSE st

Shelve(s, data, ok) ==
  /\ pc[s] = "ready"
  /\ \E id \in Uuid4 : Apply(Record(Shelf_shelve(State, s, data, id, ok), data))

Clear(s) ==
  /\ pc[s] = "ready"
  /\ Apply(Shelf_clear(State, s))

Close(s, ok) ==
  /\ pc[s] = "ready"
  /\ Apply(Shelf_close(State, s, ok))

\* A process resolves a future; any (location, id) can be made into one.
Result(p, loc, id) ==
  /\ <<loc, id>> \in FutureKeys
  /\ Apply(ShelfFuture_result(State, p, loc, id))

FutureClear(loc, id) ==
  /\ <<loc, id>> \in FutureKeys
  /\ Apply(ShelfFuture_clear(State, loc, id))

Next ==
  \/ \E s \in Stores, loc \in Locs : Construct(s, loc)
  \/ \E s \in Stores : Register(s)
  \/ \E s \in Stores, data \in Vals, ok \in BOOLEAN : Shelve(s, data, ok)
  \/ \E s \in Stores : Clear(s)
  \/ \E s \in Stores, ok \in BOOLEAN : Close(s, ok)
  \/ \E p \in Procs, loc \in Locs, id \in Ids : Result(p, loc, id)
  \/ \E loc \in Locs, id \in Ids : FutureClear(loc, id)

Spec == Init /\ [][Next]_vars

\* ------------------------------------------ processes, scopes and the exit
\* The Shelf object the next constructor call makes.
NextStore == {s \in Stores : pc[s] = "unborn" /\ \A t \in Stores : t < s => pc[t] # "unborn"}

\* The Shelf objects of process p: those it constructed.
Owns(p, s) == \E n \in DOMAIN atexit[p] : atexit[p][n] = s

Alive(p) == p \notin exited

\* Shelf(loc) in process p, the whole constructor.
Open(p, s, loc) ==
  /\ Alive(p)
  /\ s \in NextStore
  /\ (\A t \in Stores : pc[t] = "unborn") => loc = FirstLoc
  /\ LocationFree(loc)
  /\ ApplyProc(Shelf_init(ProcState, p, s, loc))

ShelveIn(p, s, data, ok) ==
  /\ Alive(p) /\ Owns(p, s)
  /\ \E id \in Uuid4 : Apply(Record(Shelf_shelve(State, s, data, id, ok), data))

ClearIn(p, s) ==
  /\ Alive(p) /\ Owns(p, s)
  /\ Apply(Shelf_clear(State, s))

CloseIn(p, s, ok) ==
  /\ Alive(p) /\ Owns(p, s)
  /\ Apply(Shelf_close(State, s, ok))

\* with s: the entry of the block
Enter(p, s) ==
  /\ Alive(p) /\ Owns(p, s)
  /\ scope[s] = ""
  /\ ApplyProc([Shelf_enter(ProcState, s) EXCEPT !.scope[s] = "in"])

\* with s: the exit of the block, after a body that returned or raised
Leave(p, s, exc, ok) ==
  /\ Alive(p) /\ Owns(p, s)
  /\ scope[s] = "in"
  /\ ApplyProc([Shelf_exit(ProcState, s, exc, ok) EXCEPT !.scope[s] = "left"])

\* shelve(data) at the top level of process p
TopShelve(p, data, ok) ==
  /\ Alive(p)
  /\ shelf[p] = NoShelf => (NextStore # {} /\ LocationFree(DefaultLoc(p)))
  /\ \E id \in Uuid4, s \in NextStore \cup {NoShelf} :
       /\ s = NoShelf <=> shelf[p] # NoShelf
       /\ ApplyProc(Record(shelve(ProcState, p, data, id, ok, s), data))

\* clear_shelf() at the top level of process p
TopClear(p) ==
  /\ Alive(p)
  /\ ApplyProc(clear_shelf(ProcState, p))

\* Process p exits normally: it is in no with block.
Exit(p, oks) ==
  /\ Alive(p)
  /\ \A s \in Stores : Owns(p, s) => scope[s] # "in"
  /\ ApplyProc(exit(ProcState, p, oks))

\* The operations of the processes on their Shelf objects and on the default
\* Shelf, and the exits of the processes.
NextProc ==
  \/ \E p \in Procs, s \in Stores, loc \in Locs : Open(p, s, loc)
  \/ \E p \in Procs, s \in Stores, data \in Vals \ {None}, ok \in BOOLEAN :
       ShelveIn(p, s, data, ok)
  \/ \E p \in Procs, s \in Stores : ClearIn(p, s)
  \/ \E p \in Procs, s \in Stores, ok \in BOOLEAN : CloseIn(p, s, ok)
  \/ \E p \in Procs, data \in Vals \ {None}, ok \in BOOLEAN : TopShelve(p, data, ok)
  \/ \E p \in Procs : TopClear(p)
  \/ \E p \in Procs, oks \in [Stores -> BOOLEAN] : Exit(p, oks)

SpecProc == Init /\ [][NextProc]_vars

\* The operations on Shelf objects used as context managers.
NextScope ==
  \/ \E p \in Procs, s \in Stores, loc \in Locs : Open(p, s, loc)
  \/ \E p \in Procs, s \in Stores, data \in Vals \ {None}, ok \in BOOLEAN :
       ShelveIn(p, s, data, ok)
  \/ \E p \in Procs, s \in Stores : ClearIn(p, s)
  \/ \E p \in Procs, s \in Stores, ok \in BOOLEAN : CloseIn(p, s, ok)
  \/ \E p \in Procs, s \in Stores : Enter(p, s)
  \/ \E p \in Procs, s \in Stores, exc \in BOOLEAN, ok \in BOOLEAN : Leave(p, s, exc, ok)

SpecScope == Init /\ [][NextScope]_vars

\* ------------------------------------------- the calls of _get_temp_dir
InitTmp ==
  /\ InitShelf
  /\ tmp \in Calls

GetTempDir ==
  /\ resolved = <<>>
  /\ ApplyTmp(get_temp_dir(TmpState, tmp.pool_folder_name, tmp.temp_folder))

NextTmp == GetTempDir

SpecTmp == InitTmp /\ [][NextTmp]_vars

\* ----------------------------------------------------------------- claims
Issued(id) == shelved[id] # Absent
HandleLoc(id) == shelved[id][1]
HandleData(id) == shelved[id][2]
\* The item of an issued future is still in its folder: it has not been
\* cleared and its folder has not been removed by close.
Present(id) ==
  /\ Issued(id)
  /\ dirExists[HandleLoc(id)]
  /\ items[HandleLoc(id)][<<id>>] # Absent
\* What result() gives back in process p for the future (loc, id).
ResultOf(st, p, loc, id) == ShelfFuture_result(st, p, loc, id).ret
Live(loc) == \E s \in Stores : store_backend[s] = loc

\* C1: round trip. In every reachable state, for every future shelve has
\* returned whose item has not been cleared and whose Shelf has not been
\* closed, result() in any process returns the data that was shelved.
C1_RoundTrip ==
  \A id \in Ids, p \in Procs :
    Present(id) => ResultOf(State, p, HandleLoc(id), id).out = HandleData(id)

\* C1 witness: two futures of one location, the older one resolved (its data
\* is memoized in some process) after the later shelve, both items present.
C1_Witness ==
  \E i, j \in Ids, p \in Procs :
    /\ i < j /\ Present(i) /\ Present(j)
    /\ HandleLoc(i) = HandleLoc(j) /\ HandleData(i) # HandleData(j)
    /\ futures[p][<<HandleLoc(i), i>>] = HandleData(i)
    /\ futures[p][<<HandleLoc(j), j>>] = HandleData(j)

C3_NoStaleResult ==
  \A id \in Ids, p \in Procs :
    (Issued(id) /\ ~Present(id))
      => ResultOf(State, p, HandleLoc(id), id).out = KeyError

\* C4 as stated: once result() has succeeded for a key in a process, the
\* value is in _futures under that key, and every later result() for the key
\* in that process returns it without a call of the backend.
C4_Memoized ==
  \A p \in Procs, loc \in Locs, id \in Ids :
    LET st1 == ShelfFuture_result(State, p, loc, id)
    IN /\ st1.ret.out # KeyError => st1.futures[p][<<loc, id>>] = st1.ret.out
       /\ futures[p][<<loc, id>>] # Absent
            => /\ st1.ret.out = futures[p][<<loc, id>>]
               /\ st1.ret.calls = <<>>

\* The state but for what the call gave back.
SameState(st1, st2) == [st2 EXCEPT !.ret = st1.ret] = st1

\* C5: a close() of an open Shelf that returns leaves the folder removed and
\* store_backend None; a close() of a closed Shelf, right after or in any
\* later state, returns None, calls neither rmtree nor the tracker and
\* changes nothing, whether or not rmtree would work.
C5_CloseOnce ==
  \A s \in Stores, ok \in BOOLEAN :
    pc[s] = "ready" =>
      LET st1 == Shelf_close(State, s, ok)
      IN /\ (store_backend[s] \in Locs /\ st1.ret.out = None)
              => /\ ~st1.dirExists[store_backend[s]]
                 /\ st1.store_backend[s] = None
                 /\ \A ok2 \in BOOLEAN :
                      LET st2 == Shelf_close(st1, s, ok2)
                      IN /\ st2.ret.out = None /\ st2.ret.calls = <<>>
                         /\ SameState(st1, st2)
         /\ store_backend[s] = None
              => /\ st1.ret.out = None /\ st1.ret.calls = <<>>
                 /\ SameState(State, st1)

\* C5 witness: a Shelf closed by close() whose location has been taken by a
\* later Shelf that is open, with an item in its folder.
C5_Witness ==
  \E s, t \in Stores, id \in Ids :
    /\ s < t /\ pc[s] = "ready" /\ store_backend[s] = None
    /\ pc[t] = "ready" /\ store_backend[t] = FirstLoc
    /\ Present(id) /\ HandleLoc(id) = FirstLoc

\* C6: shelve on a closed Shelf raises RuntimeError, calls neither uuid4 nor
\* the backend and changes nothing, so the Shelf stays closed; this holds in
\* every reachable state, for every data, whatever uuid4 and the backend
\* would have done.
C6_ShelveClosed ==
  \A s \in Stores :
    (pc[s] = "ready" /\ store_backend[s] = None) =>
      \A data \in Vals, id \in Ids, ok \in BOOLEAN :
        LET st1 == Shelf_shelve(State, s, data, id, ok)
        IN /\ st1.ret.out = RuntimeError
           /\ st1.ret.calls = <<>>
           /\ SameState(State, st1)

\* C6 witness: a closed Shelf while uuid4 has identifiers left and another
\* Shelf is open.
C6_Witness ==
  \E s, t \in Stores :
    /\ pc[s] = "ready" /\ store_backend[s] = None
    /\ pc[t] = "ready" /\ store_backend[t] \in Locs
    /\ used # Ids

\* C8 as stated: resolving a future whose identifier was never shelved at its
\* location, or whose location is the folder of no live Shelf, raises
\* KeyError and adds nothing to _futures.
C8_UnknownFuture ==
  \A p \in Procs, loc \in Locs, id \in Ids :
    (~(Issued(id) /\ HandleLoc(id) = loc) \/ ~Live(loc)) =>
      LET st1 == ShelfFuture_result(State, p, loc, id)
      IN st1.ret.out = KeyError /\ st1.futures = futures

\* C9: Shelf.clear() on an open Shelf leaves its folder existing and empty
\* and the Shelf open; a second clear() changes nothing more; a shelve that
\* follows returns a future that result() resolves to its data.
C9_ClearKeepsOpen ==
  \A s \in Stores :
    (pc[s] = "ready" /\ store_backend[s] \in Locs) =>
      LET loc == store_backend[s]
          st1 == Shelf_clear(State, s)
      IN /\ st1.ret.out = None
         /\ st1.items[loc] = EmptyFolder
         /\ st1.dirExists[loc]
         /\ st1.store_backend[s] = loc
         /\ SameState(st1, Shelf_clear(st1, s))
         /\ \A data \in Vals, id \in Uuid4, p \in Procs :
              LET st2 == Shelf_shelve(st1, s, data, id, TRUE)
              IN /\ st2.ret.out = "ShelfFuture"
                 /\ ResultOf(st2, p, st2.ret.future[1], st2.ret.future[2]).out = data

\* C9 witness: an open Shelf cleared after a first shelve (the item of an
\* issued future of its location is gone) with a later item in its folder.
C9_Witness ==
  \E s \in Stores, i, j \in Ids :
    /\ pc[s] = "ready" /\ store_backend[s] \in Locs
    /\ i < j /\ Issued(i) /\ HandleLoc(i) = store_backend[s] /\ ~Present(i)
    /\ Present(j) /\ HandleLoc(j) = store_backend[s]

\* C10: ShelfFuture.clear() on a future of an existing folder returns None,
\* removes the item (location, id) and leaves every other item, every
\* folder, the tracker, the Shelf objects and _futures as they were; a
\* second clear() of it returns None and changes nothing.
C10_ClearOneItem ==
  \A loc \in Locs, id \in Ids :
    dirExists[loc] =>
      LET st1 == ShelfFuture_clear(State, loc, id)
          st2 == ShelfFuture_clear(st1, loc, id)
      IN /\ st1.ret.out = None
         /\ SameState(st1, [State EXCEPT !.items[loc][<<id>>] = Absent])
         /\ st2.ret.out = None
         /\ SameState(st1, st2)

\* C10 witness: of two futures of one folder, one has been cleared and the
\* other's item is still there.
C10_Witness ==
  \E i, j \in Ids :
    /\ i # j /\ Issued(i) /\ Issued(j) /\ HandleLoc(i) = HandleLoc(j)
    /\ dirExists[HandleLoc(i)] /\ ~Present(i) /\ Present(j)

C14_FailedShelve ==
  \A s \in Stores, data \in Vals, id \in Uuid4 :
    (pc[s] = "ready" /\ store_backend[s] \in Locs) =>
      LET loc == store_backend[s]
          st1 == Shelf_shelve(State, s, data, id, FALSE)
      IN /\ st1.ret.out = OSError
         /\ SameState(st1, [State EXCEPT !.used = @ \cup {id}])
         /\ st1.store_backend[s] = loc
         /\ <<loc, FOLDER>> \in st1.registry
         /\ \A i \in Ids, p \in Procs :
              Present(i) => ResultOf(st1, p, HandleLoc(i), i).out = HandleData(i)
         /\ \A data2 \in Vals, id2 \in Ids \ st1.used, p \in Procs :
              LET st2 == Shelf_shelve(st1, s, data2, id2, TRUE)
              IN /\ st2.ret.out = "ShelfFuture"
                 /\ st2.ret.future = <<loc, id2>>
                 /\ ResultOf(st2, p, loc, id2).out = data2

\* C14 witness: uuid4 handed out an identifier to a shelve that returned no
\* future (its write failed), and a later shelve on a Shelf that is open
\* returned a future whose item is in the folder.
C14_Witness ==
  \E s \in Stores, i, j \in Ids :
    /\ i < j /\ i \in used /\ ~Issued(i)
    /\ pc[s] = "ready" /\ store_backend[s] \in Locs
    /\ Present(j) /\ HandleLoc(j) = store_backend[s]
    /\ <<store_backend[s], FOLDER>> \in registry

\* C15: for every future whose item is in its folder, result() in any
\* process returns the data shelved and changes nothing but that process's
\* own _futures entry for the future: the item, the folders and the other
\* processes' dictionaries are as before, so result() in any other process,
\* before or after, returns the data as well.
C15_SharedRead ==
  \A id \in Ids, p \in Procs :
    Present(id) =>
      LET loc == HandleLoc(id)
          st1 == ShelfFuture_result(State, p, loc, id)
      IN /\ st1.ret.out = HandleData(id)
         /\ SameState(st1, [State EXCEPT !.futures[p][<<loc, id>>] = HandleData(id)])
         /\ \A q \in Procs \ {p} :
              /\ st1.futures[q] = futures[q]
              /\ ResultOf(st1, q, loc, id).out = HandleData(id)
              /\ ShelfFuture_result(st1, q, loc, id).items = items

\* C15 witness: both processes have resolved one future, each has the data
\* in its own dictionary, and the item is still in the folder.
C15_Witness ==
  \E id \in Ids :
    /\ Present(id) /\ HandleData(id) # None
    /\ \A p \in Procs : futures[p][<<HandleLoc(id), id>>] = HandleData(id)

\* C17 as stated: ShelfFuture.clear() and Shelf.clear() leave _futures as it
\* was; once the item of a future has been erased, result() returns the
\* data in every process that resolved the future before, and raises
\* KeyError in every process that did not.
C17_StaleAfterClear ==
  /\ \A loc \in Locs, id \in Ids : ShelfFuture_clear(State, loc, id).futures = futures
  /\ \A s \in Stores : pc[s] = "ready" => Shelf_clear(State, s).futures = futures
  /\ \A id \in Ids, p \in Procs :
       (Issued(id) /\ ~Present(id)) =>
         ResultOf(State, p, HandleLoc(id), id).out
           = IF futures[p][<<HandleLoc(id), id>>] # Absent
             THEN HandleData(id)
             ELSE KeyError

\* C11 as stated: a Shelf whose with block has been left is closed.
C11_ClosedOnceLeft ==
  \A s \in Stores : scope[s] = "left" => store_backend[s] = None

\* C11 amended: __enter__ returns the Shelf object itself and changes
\* nothing.  __exit__, after a body that returned or raised and whether or
\* not the body closed the Shelf, either returns None, and then the Shelf is
\* closed (the folder of a Shelf that was open is removed, a Shelf that was
\* closed is left as it was), or raises the error of rmtree, and then the
\* Shelf is open as before with its folder; it raises only when rmtree fails.
C11_Scope ==
  \A s \in Stores :
    pc[s] = "ready" =>
      /\ scope[s] = ""
           => /\ Shelf_enter(State, s).ret.out = Self(s)
              /\ SameState(State, Shelf_enter(State, s))
      /\ scope[s] = "in"
           => \A exc \in BOOLEAN, ok \in BOOLEAN :
                LET st1 == Shelf_exit(State, s, exc, ok)
                IN /\ st1.ret.out \in {None, OSError}
                   /\ ok => st1.ret.out = None
                   /\ st1.ret.out = None =>
                        /\ st1.store_backend[s] = None
                        /\ store_backend[s] \in Locs => ~st1.dirExists[store_backend[s]]
                        /\ store_backend[s] = None => SameState(State, st1)
                   /\ st1.ret.out = OSError =>
                        /\ store_backend[s] \in Locs
                        /\ st1.dirExists[store_backend[s]]
                        /\ SameState(State, st1)

\* C11 witness: two with blocks have been left after a shelve; both Shelf
\* objects are closed and no folder is left.
C11_Witness ==
  \E s, t \in Stores, id \in Ids :
    /\ s # t /\ scope[s] = "left" /\ scope[t] = "left"
    /\ store_backend[s] = None /\ store_backend[t] = None
    /\ Issued(id) /\ \A loc \in Locs : ~dirExists[loc]

C12_DefaultShelf ==
  \A p \in Procs :
    Alive(p) =>
      /\ shelf[p] = NoShelf =>
           /\ SameState(ProcState, clear_shelf(ProcState, p))
           /\ clear_shelf(ProcState, p).ret.calls = <<>>
           /\ \A s \in NextStore, data \in Vals, id \in Uuid4, ok \in BOOLEAN :
                LocationFree(DefaultLoc(p)) =>
                  LET st1 == shelve(ProcState, p, data, id, ok, s)
                  IN /\ st1.shelf = [shelf EXCEPT ![p] = s]
                     /\ st1.pc = [pc EXCEPT ![s] = "ready"]
                     /\ ok => st1.ret.out = "ShelfFuture"
                     /\ st1.ret.out = "ShelfFuture"
                          => st1.ret.future[1] = st1.store_backend[s]
      /\ shelf[p] # NoShelf =>
           /\ pc[shelf[p]] = "ready" /\ Owns(p, shelf[p])
           /\ \A q \in Procs \ {p} : shelf[q] # shelf[p]
           /\ \A s \in NextStore \cup {NoShelf}, data \in Vals, id \in Uuid4,
                 ok \in BOOLEAN :
                LET st1 == shelve(ProcState, p, data, id, ok, s)
                IN /\ st1.shelf = shelf
                   /\ st1.pc = pc
                   /\ st1.atexit = atexit
                   /\ st1.ret.out = "ShelfFuture"
                        => st1.ret.future[1] = store_backend[shelf[p]]

\* C12 witness: both processes have a default Shelf, each at its own
\* location, each with the item of a future shelve returned.
C12_Witness ==
  /\ \A p \in Procs :
       /\ shelf[p] # NoShelf /\ store_backend[shelf[p]] = DefaultLoc(p)
       /\ \E id \in Ids : Present(id) /\ HandleLoc(id) = DefaultLoc(p)
  /\ shelf["p1"] # shelf["p2"]

\* How many times call is in calls.
Count(calls, call) == Cardinality({n \in DOMAIN calls : calls[n] = call})
\* The Shelf objects of process p that are open.
OpenShelves(p) == {s \in Stores : Owns(p, s) /\ store_backend[s] \in Locs}

\* C18 as stated: every Shelf constructed by a process that has exited is
\* closed.
C18_ClosedOnceExited ==
  \A p \in exited, s \in Stores : Owns(p, s) => store_backend[s] = None

\* C18 amended: the normal exit of a process calls the close() of every
\* Shelf the process constructed.  A Shelf that was still open and whose
\* rmtree works ends closed, its folder removed and its location
\* unregistered, by one rmtree and one unregister; one whose rmtree fails
\* stays open, its folder in place and registered, and the other close()
\* calls still run.  The close() of a Shelf that is closed already does
\* nothing: the exit of a process whose Shelf objects are all closed changes
\* nothing.  The other folders and registrations are left as they were.
C18_ExitCloses ==
  \A p \in Procs :
    Alive(p) =>
      \A oks \in [Stores -> BOOLEAN] :
        LET st1 == exit(ProcState, p, oks)
            done == {s \in OpenShelves(p) : oks[s]}
            locs == {store_backend[s] : s \in done}
        IN /\ \A s \in Stores :
                st1.store_backend[s] = IF s \in done THEN None ELSE store_backend[s]
           /\ \A loc \in locs : ~st1.dirExists[loc] /\ <<loc, FOLDER>> \notin st1.registry
           /\ Count(st1.ret.calls, "rmtree") = Cardinality(OpenShelves(p))
           /\ Count(st1.ret.calls, "unregister") = Cardinality(done)
           /\ Len(st1.ret.calls) = Cardinality(OpenShelves(p)) + Cardinality(done)
           /\ \A loc \in Locs \ locs :
                /\ st1.dirExists[loc] = dirExists[loc]
                /\ st1.items[loc] = items[loc]
                /\ <<loc, FOLDER>> \in st1.registry <=> <<loc, FOLDER>> \in registry
           /\ OpenShelves(p) = {} =>
                /\ st1.ret.calls = <<>>
                /\ SameState(st1, [ProcState EXCEPT !.exited = @ \cup {p}])

\* C18 witness: a process that constructed two Shelf objects has exited
\* after a shelve; both are closed, no folder and no registration is left.
C18_Witness ==
  \E p \in Procs, s, t \in Stores, id \in Ids :
    /\ p \in exited /\ s # t /\ Owns(p, s) /\ Owns(p, t)
    /\ store_backend[s] = None /\ store_backend[t] = None
    /\ Issued(id)
    /\ registry = {} /\ \A loc \in Locs : ~dirExists[loc]

\* C20: in every reachable state, for every Shelf that close() has closed,
\* no call leaves it open: not its shelve, clear, close, __enter__ or
\* __exit__, not those of another Shelf, not the construction of another
\* Shelf, not shelve(data) or clear_shelf() of any process, not the exit of
\* any process.  When the closed Shelf is the default Shelf of a process,
\* shelve(data) in that process raises RuntimeError, constructs nothing and
\* leaves the default Shelf the same closed object.
C20_ClosedAbsorbing ==
  LET Closed == {s \in Stores : pc[s] = "ready" /\ store_backend[s] = None}
      Stays(st1) == \A s \in Closed : st1.store_backend[s] = None /\ st1.pc[s] = "ready"
  IN /\ \A t \in Stores, ok \in BOOLEAN :
          pc[t] = "ready" =>
            /\ \A data \in Vals, id \in Uuid4 : Stays(Shelf_shelve(State, t, data, id, ok))
            /\ Stays(Shelf_clear(State, t))
            /\ Stays(Shelf_close(State, t, ok))
            /\ Stays(Shelf_enter(State, t))
            /\ \A exc \in BOOLEAN : Stays(Shelf_exit(State, t, exc, ok))
     /\ \A p \in Procs, t \in NextStore, loc \in Locs :
          Stays(Shelf_init(ProcState, p, t, loc))
     /\ \A p \in Procs :
          /\ \A oks \in [Stores -> BOOLEAN] : Stays(exit(ProcState, p, oks))
          /\ Stays(clear_shelf(ProcState, p))
     /\ \A p \in Procs, t \in NextStore \cup {NoShelf}, data \in Vals,
           id \in Uuid4, ok \in BOOLEAN :
          (shelf[p] = NoShelf => t # NoShelf) =>
            LET st1 == shelve(ProcState, p, data, id, ok, t)
            IN /\ Stays(st1)
               /\ shelf[p] \in Closed =>
                    /\ st1.ret.out = RuntimeError
                    /\ SameState(ProcState, st1)

\* C20 witness: the default Shelf of a process that has not exited is
\* closed, while a Shelf object could still be constructed at the process's
\* location and uuid4 has identifiers left.
C20_Witness ==
  \E p \in Procs :
    /\ Alive(p) /\ shelf[p] # NoShelf /\ store_backend[shelf[p]] = None
    /\ NextStore # {} /\ Uuid4 # {} /\ LocationFree(DefaultLoc(p))

\* The root the reference of C16 selects for a call t, and whether it is the
\* shared-memory one; the subdirectory "can be created" when makedirs works
\* or the subdirectory is there already.
RefSharedMem(t) ==
  /\ t.temp_folder = None /\ t.environ = None
  /\ SYSTEM_SHARED_MEM_FS \in t.dirs
  /\ t.has_statvfs /\ t.statvfs_ok
  /\ t.shm_stats[1] * t.shm_stats[2] > 2000000000
  /\ (join(SYSTEM_SHARED_MEM_FS, t.pool_folder_name) \in t.dirs \/ t.makedirs_ok)
RefRoot(t) ==
  IF t.temp_folder # None THEN t.temp_folder
  ELSE IF t.environ # None THEN t.environ
  ELSE IF RefSharedMem(t) THEN "/dev/shm"
  ELSE "/tmp"

C19_NeverCreates ==
  resolved # <<>> => resolved[1] \notin tmp.made

\* C19 amended: _get_temp_dir creates no directory when it returns a folder
\* under an explicit temp_folder, under JOBLIB_TEMP_FOLDER or under
\* gettempdir(); when it returns a folder under the shared-memory folder,
\* that folder exists on return, and it is the only directory the call can
\* have created.
C19_CreatesOnlyInSharedMem ==
  resolved # <<>> =>
    /\ ~resolved[2] => tmp.made = {}
    /\ resolved[2] => (resolved[1] \in tmp.dirs /\ tmp.made \subseteq {resolved[1]})

\* C19 witness: a call returned a folder under the shared-memory folder that
\* was missing before it, and that the call created.
C19_Witness ==
  /\ resolved # <<>> /\ resolved[2]
  /\ tmp.made = {resolved[1]}
  /\ tmp.temp_folder = None /\ tmp.environ = None

====
